---- MODULE Spec2Model ----
(***************************************************************************)
(* Query resolution of bluepysnap (src/bluepysnap/query.py): the mask      *)
(* algebra, the property matcher, the population / ID filter, the          *)
(* bottom-up traversal, node-set resolution and resolve_ids.               *)
(*                                                                         *)
(* Python values are records [k, v]: k is the runtime type, v the payload. *)
(*   "int"   a number                "str"   a string                      *)
(*   "list"  a list of scalars       "map"   a nested mapping (a dict)     *)
(*   "nodes" a list of query dicts   "bool"  the scalar True / False       *)
(*   "vec"   a boolean numpy array   "none"  None                          *)
(*   "set"   a set of names          "raise" an exception that propagates  *)
(* A dict is the sequence of its <<key, value>> items in insertion order.  *)
(***************************************************************************)
EXTENDS Integers, Sequences, FiniteSets

VARIABLES data,     \* the table (pd.DataFrame): a sequence of rows
          heap,     \* the query-tree objects: the caller's and the private copy
          arg,      \* the caller's tree as it was when the last call started
          op,       \* the operation that ran last
          result,   \* what it returned (k = "raise": the exception it raised)
          raw,      \* resolve_ids: the root fold before the final broadcast
          trace,    \* the traversal's events, in order
          lookups,  \* how many times the node-set registry was consulted
          masks,    \* the argument of _logical_and / _logical_or
          node,     \* the `queries` argument of the leaf-level functions
          ids,      \* the `ids` argument of _positional_mask
          passed    \* the caller's tree is one resolve_nodesets returned

vars == <<data, heap, arg, op, result, raw, trace, lookups, masks, node, ids, passed>>

-----------------------------------------------------------------------------
(* Bounds of the model *)

MaxRows == 3
MaxKeys == 2
MaxChildren == 2
MaxMasks == 2
MaxIds == 3

-----------------------------------------------------------------------------
(* Constants of query.py *)

NODE_ID_KEY == "node_id"
EDGE_ID_KEY == "edge_id"
POPULATION_KEY == "population"
OR_KEY == "$or"
AND_KEY == "$and"
REGEX_KEY == "$regex"
NODE_SET_KEY == "$node_set"
VALUE_KEYS == {REGEX_KEY}
ALL_KEYS == {NODE_ID_KEY, EDGE_ID_KEY, POPULATION_KEY, OR_KEY, AND_KEY, NODE_SET_KEY}
            \cup VALUE_KEYS

-----------------------------------------------------------------------------
(* Python values *)

Int_(n) == [k |-> "int", v |-> n]
Str(s) == [k |-> "str", v |-> s]
List(xs) == [k |-> "list", v |-> xs]
Map(d) == [k |-> "map", v |-> d]
Nodes(ds) == [k |-> "nodes", v |-> ds]
Bool(b) == [k |-> "bool", v |-> b]
Vec(bs) == [k |-> "vec", v |-> bs]
NameSet(S) == [k |-> "set", v |-> S]
Raise(e) == [k |-> "raise", v |-> e]
None == [k |-> "none", v |-> 0]

PyTrue == Bool(TRUE)
PyFalse == Bool(FALSE)

IsRaise(r) == r.k = "raise"

(* dict helpers: a dict is a sequence of <<key, value>> items *)
Keys(d) == [i \in 1..Len(d) |-> d[i][1]]
KeySet(d) == {d[i][1] : i \in 1..Len(d)}
HasKey(d, key) == key \in KeySet(d)
IndexOf(d, key) == CHOOSE i \in 1..Len(d) : d[i][1] = key
Get(d, key) == d[IndexOf(d, key)][2]
Values(d) == [i \in 1..Len(d) |-> d[i][2]]
\* d[key] = val: an existing key keeps its position, a new key goes last
Put(d, key, val) ==
    IF HasKey(d, key)
    THEN [i \in 1..Len(d) |-> IF d[i][1] = key THEN <<key, val>> ELSE d[i]]
    ELSE Append(d, <<key, val>>)
\* del d[key]
Del(d, key) == SelectSeq(d, LAMBDA it : it[1] # key)

-----------------------------------------------------------------------------
(* The table: rows in order, each with its ID (the index) and its columns. *)

Columns == {"a", "b", "s", "x"}

DType(col) == CASE col = "x" -> "float"
                [] col = "s" -> "object"
                [] OTHER -> "int"


\* Index.get_indexer(ids): the position of each id, -1 when absent
GetIndexer(d, idlist) ==
    [j \in 1..Len(idlist) |->
        IF \E i \in 1..Len(d) : idlist[j].k = "int" /\ d[i].id = idlist[j].v
        THEN CHOOSE i \in 1..Len(d) : d[i].id = idlist[j].v
        ELSE -1]

Full(n, b) == [i \in 1..n |-> b]
AnyTrue(bs) == \E i \in 1..Len(bs) : bs[i]

-----------------------------------------------------------------------------
(* Mask algebra *)

VecAnd(u, w) == [i \in 1..Len(u) |-> u[i] /\ w[i]]
VecOr(u, w) == [i \in 1..Len(u) |-> u[i] \/ w[i]]

RECURSIVE ReduceAnd(_)
ReduceAnd(ms) == IF Len(ms) = 1 THEN ms[1].v
                 ELSE VecAnd(ReduceAnd(SubSeq(ms, 1, Len(ms) - 1)), ms[Len(ms)].v)

RECURSIVE ReduceOr(_)
ReduceOr(ms) == IF Len(ms) = 1 THEN ms[1].v
                ELSE VecOr(ReduceOr(SubSeq(ms, 1, Len(ms) - 1)), ms[Len(ms)].v)

RECURSIVE AndScan(_, _, _)
AndScan(ms, i, filtered) ==
    IF i > Len(ms)
    THEN IF filtered = <<>> THEN PyTrue ELSE Vec(ReduceAnd(filtered))
    ELSE IF ms[i] = PyFalse THEN PyFalse
    ELSE IF ms[i] = PyTrue THEN AndScan(ms, i + 1, filtered)
    ELSE AndScan(ms, i + 1, Append(filtered, ms[i]))

RECURSIVE OrScan(_, _, _)
OrScan(ms, i, filtered) ==
    IF i > Len(ms)
    THEN IF filtered = <<>> THEN PyFalse ELSE Vec(ReduceOr(filtered))
    ELSE IF ms[i] = PyTrue THEN PyTrue
    ELSE IF ms[i] = PyFalse THEN OrScan(ms, i + 1, filtered)
    ELSE OrScan(ms, i + 1, Append(filtered, ms[i]))

\* _logical_and with the scan of _logical_or pasted in: True ends the scan
LogicalAndPasted(ms) ==
    IF \E i \in 1..Len(ms) : ms[i] = PyTrue /\ \A j \in 1..(i - 1) : ms[j] # PyFalse
    THEN PyTrue
    ELSE AndScan(ms, 1, <<>>)

LogicalAnd(ms) == AndScan(ms, 1, <<>>)

LogicalOr(ms) == OrScan(ms, 1, <<>>)

\* a mask as the per-row vector it stands for
Broadcast(n, m) == IF m.k = "bool" THEN Full(n, m.v) ELSE m.v

-----------------------------------------------------------------------------
(* Strings: the characters of each string the model uses.  A regex is read *)
(* token by token: a literal character, ".*" or the end anchor "\Z".       *)

Chars(s) == CASE s = "ab" -> <<"a", "b">>
              [] s = "abc" -> <<"a", "b", "c">>
              [] s = "xab" -> <<"x", "a", "b">>
              [] s = "ab.*" -> <<"a", "b", ".*">>
              [] s = "P" -> <<"P">>
              [] s = "Q" -> <<"Q">>
              [] s = "ns1" -> <<"n", "s", "1">>
              [] s = "ns2" -> <<"n", "s", "2">>

END_ANCHOR == "\\Z"

\* re.match: the pattern, from token i, matches s from position j on
\* (anchored at the start only; the end is free unless the pattern says so)
RECURSIVE ReMatch(_, _, _, _)
ReMatch(p, i, s, j) ==
    IF i > Len(p) THEN TRUE
    ELSE IF p[i] = ".*" THEN \E n \in j..(Len(s) + 1) : ReMatch(p, i + 1, s, n)
    ELSE IF p[i] = END_ANCHOR THEN j = Len(s) + 1 /\ ReMatch(p, i + 1, s, j)
    ELSE j <= Len(s) /\ s[j] = p[i] /\ ReMatch(p, i + 1, s, j + 1)

\* prop.str.match(value + r"\Z") of one cell
StrMatch(cell, value) == ReMatch(Append(Chars(value), END_ANCHOR), 1, Chars(cell.v), 1)

-----------------------------------------------------------------------------
(* Property matcher and population / ID filter *)

RECURSIVE ComplexQueryLoop(_, _, _, _, _)
ComplexQueryLoop(d, col, query, i, res) ==
    IF i > Len(query) THEN res
    ELSE IF query[i][1] = REGEX_KEY
    THEN IF DType(col) # "object" THEN Raise("AttributeError")
         ELSE IF query[i][2].k # "str" THEN Raise("TypeError")
         ELSE ComplexQueryLoop(d, col, query, i + 1,
                  LogicalAnd(<<res, Vec([r \in 1..Len(d) |->
                                            StrMatch(d[r][col], query[i][2].v)])>>))
    ELSE Raise("BluepySnapError")

ComplexQuery(d, col, query) == ComplexQueryLoop(d, col, query, 1, PyTrue)

\* _positional_mask without the `indices > -1` filter: numpy reads -1 as the last row
PositionalMaskUnfiltered(d, idsArg) ==
    IF idsArg.k = "none" THEN PyTrue
    ELSE LET idlist == IF idsArg.k = "int" THEN <<idsArg>> ELSE idsArg.v
             indices == GetIndexer(d, idlist)
         IN Vec([r \in 1..Len(d) |->
                    \E j \in 1..Len(indices) :
                        indices[j] = r \/ (indices[j] = -1 /\ r = Len(d))])

PositionalMask(d, idsArg) ==
    IF idsArg.k = "none" THEN PyTrue
    ELSE LET idlist == IF idsArg.k = "int" THEN <<idsArg>> ELSE idsArg.v
             indices == GetIndexer(d, idlist)
         IN Vec([r \in 1..Len(d) |-> \E j \in 1..Len(indices) : indices[j] > -1 /\ indices[j] = r])

\* utils.ensure_list: a list stays, a scalar (strings included) is wrapped
EnsureList(val) == IF val.k = "list" THEN val.v ELSE <<val>>

Pop(d, key, default) == IF HasKey(d, key) THEN Get(d, key) ELSE default

PopulationName == "P"

\* returns [queries, mask]: the dict as the pops left it, and the positional mask
CircuitMask(d, population_name, queries) ==
    LET populations == Pop(queries, POPULATION_KEY, None)
        q1 == Del(queries, POPULATION_KEY)
        requested == EnsureList(populations)
    IN IF populations.k # "none"
          /\ ~ \E i \in 1..Len(requested) : requested[i] = Str(population_name)
       THEN [queries |-> q1, mask |-> PositionalMask(d, List(<<>>))]
       ELSE LET edge == Pop(q1, EDGE_ID_KEY, None)
                q2 == Del(q1, EDGE_ID_KEY)
                chosen == Pop(q2, NODE_ID_KEY, edge)
                q3 == Del(q2, NODE_ID_KEY)
            IN [queries |-> q3, mask |-> PositionalMask(d, chosen)]

\* v1, v2 = values; prop >= v1 and prop <= v2, on a floating-point column
RangeMask(d, col, values) ==
    CASE values.k = "int" -> Raise("TypeError")
      [] values.k = "str" ->
            IF Len(Chars(values.v)) = 2 THEN Raise("TypeError") ELSE Raise("ValueError")
      [] values.k = "map" ->
            IF Len(values.v) = 2 THEN Raise("TypeError") ELSE Raise("ValueError")
      [] values.k = "list" ->
            IF Len(values.v) # 2 THEN Raise("ValueError")
            ELSE IF values.v[1].k # "int" \/ values.v[2].k # "int" THEN Raise("TypeError")
            ELSE Vec([r \in 1..Len(d) |->
                        d[r][col].v >= values.v[1].v /\ d[r][col].v <= values.v[2].v])

SameValue(cell, val) == cell.k = val.k /\ cell.v = val.v

\* the dispatch with the value's shape tested before the column's dtype
PropMaskShapeFirst(d, col, values) ==
    IF values.k = "map" THEN ComplexQuery(d, col, values.v)
    ELSE IF values.k = "list"
    THEN Vec([r \in 1..Len(d) |->
                \E j \in 1..Len(values.v) : SameValue(d[r][col], values.v[j])])
    ELSE IF DType(col) = "float" THEN RangeMask(d, col, values)
    ELSE Vec([r \in 1..Len(d) |-> SameValue(d[r][col], values)])

\* one property predicate of the loop of _properties_mask
PropMask(d, col, values) ==
    IF DType(col) = "float" THEN RangeMask(d, col, values)
    ELSE IF values.k = "map" THEN ComplexQuery(d, col, values.v)
    ELSE IF values.k = "list"
    THEN Vec([r \in 1..Len(d) |->
                \E j \in 1..Len(values.v) : SameValue(d[r][col], values.v[j])])
    ELSE Vec([r \in 1..Len(d) |-> SameValue(d[r][col], values)])

RECURSIVE PropertiesLoop(_, _, _, _)
PropertiesLoop(d, queries, i, mask) ==
    IF i > Len(queries) THEN mask
    ELSE IF queries[i][1] \notin Columns THEN Raise("KeyError")
    ELSE LET prop_mask == PropMask(d, queries[i][1], queries[i][2])
         IN IF IsRaise(prop_mask) THEN prop_mask
            ELSE PropertiesLoop(d, queries, i + 1, LogicalAnd(<<mask, prop_mask>>))

UnknownProps(queries) == (KeySet(queries) \ Columns) \ ALL_KEYS

PropertiesMask(d, population_name, queries) ==
    IF UnknownProps(queries) # {} THEN PyFalse
    ELSE LET cm == CircuitMask(d, population_name, queries)
         IN IF cm.mask = PyFalse \/ (cm.mask.k = "vec" /\ ~AnyTrue(cm.mask.v))
            THEN PyFalse
            ELSE PropertiesLoop(d, cm.queries, 1, cm.mask)

-----------------------------------------------------------------------------
(* The node-set registry (bluepysnap.NodeSets, outside this module):       *)
(* node_sets[name].get_ids(population, raise_missing_prop).  "ns1" holds   *)
(* IDs; "ns2" refers to a property the population lacks.                   *)

NodeSetGetIds(name, raise_missing_prop) ==
    CASE name = "ns1" -> List(<<Int_(2), Int_(5)>>)
      [] name = "ns2" -> IF raise_missing_prop THEN Raise("BluepySnapError")
                         ELSE List(<<>>)

-----------------------------------------------------------------------------
(* Bottom-up traversal.  The walk threads st = [trace, err, props,         *)
(* lookups]: the events so far, the exception in flight (None when there   *)
(* is none), the names get_properties collected and the registry count.    *)
(* ctx = [fn, data, flag] names the visitor and what it closes over.       *)
(* A path is the way from the root to a node: <<key, position>> steps.     *)

Enter(path, keys) == [e |-> "enter", path |-> path, key |-> "", keys |-> keys]
VisitEvent(path, key) == [e |-> "visit", path |-> path, key |-> key, keys |-> <<>>]

St0 == [trace |-> <<>>, err |-> None, props |-> {}, lookups |-> 0]

Failed(queries, st, e) == [node |-> queries, st |-> [st EXCEPT !.err = Raise(e)]]

\* get_properties._collect
CollectProps(queries, key, st) ==
    [node |-> queries,
     st |-> IF key \notin ALL_KEYS THEN [st EXCEPT !.props = @ \cup {key}] ELSE st]

\* _resolve without its `del queries[queries_key]`
ResolveVisitKeep(ctx, queries, key, st) ==
    IF key # NODE_SET_KEY THEN [node |-> queries, st |-> st]
    ELSE LET q1 == IF ~HasKey(queries, AND_KEY) THEN Put(queries, AND_KEY, Nodes(<<>>))
                   ELSE queries
             got == NodeSetGetIds(Get(q1, key).v, ctx.flag)
             st1 == [st EXCEPT !.lookups = @ + 1]
         IN IF IsRaise(got) THEN [node |-> q1, st |-> [st1 EXCEPT !.err = got]]
            ELSE [node |-> Put(q1, AND_KEY,
                               Nodes(Append(Get(q1, AND_KEY).v, <<<<NODE_ID_KEY, got>>>>))),
                  st |-> st1]

\* resolve_nodesets._resolve
ResolveVisit(ctx, queries, key, st) ==
    IF key # NODE_SET_KEY THEN [node |-> queries, st |-> st]
    ELSE LET q1 == IF ~HasKey(queries, AND_KEY) THEN Put(queries, AND_KEY, Nodes(<<>>))
                   ELSE queries
             got == NodeSetGetIds(Get(q1, key).v, ctx.flag)
             st1 == [st EXCEPT !.lookups = @ + 1]
         IN IF IsRaise(got) THEN [node |-> q1, st |-> [st1 EXCEPT !.err = got]]
            ELSE [node |-> Del(Put(q1, AND_KEY,
                                   Nodes(Append(Get(q1, AND_KEY).v, <<<<NODE_ID_KEY, got>>>>))),
                               key),
                  st |-> st1]

\* _merge_queries_masks folding a node's keys with "or"
MergeQueriesMasksOr(queries) == LogicalOr(Values(queries))

\* resolve_ids._merge_queries_masks
MergeQueriesMasks(queries) == LogicalAnd(Values(queries))

\* resolve_ids._collect
CollectMask(ctx, queries, key, st) ==
    IF key = OR_KEY
    THEN LET children == Get(queries, key).v
             children_mask == [j \in 1..Len(children) |-> MergeQueriesMasks(children[j])]
         IN [node |-> Put(queries, key, LogicalOr(children_mask)), st |-> st]
    ELSE IF key = AND_KEY
    THEN LET children == Get(queries, key).v
             children_mask == [j \in 1..Len(children) |-> MergeQueriesMasks(children[j])]
         IN [node |-> Put(queries, key, LogicalAnd(children_mask)), st |-> st]
    ELSE LET m == PropertiesMask(ctx.data, PopulationName, <<<<key, Get(queries, key)>>>>)
         IN IF IsRaise(m) THEN [node |-> queries, st |-> [st EXCEPT !.err = m]]
            ELSE [node |-> Put(queries, key, m), st |-> st]

\* traverse_fn(queries, key)
Visit(ctx, queries, key, path, st) ==
    LET st1 == [st EXCEPT !.trace = Append(@, VisitEvent(path, key))]
    IN CASE ctx.fn = "collect" -> CollectProps(queries, key, st1)
         [] ctx.fn = "resolve" -> ResolveVisit(ctx, queries, key, st1)
         [] ctx.fn = "mask" -> CollectMask(ctx, queries, key, st1)

RECURSIVE Traverse(_, _, _, _)
RECURSIVE TraverseKeys(_, _, _, _, _, _)
RECURSIVE TraverseChildren(_, _, _, _, _, _)

\* what the loop body does for one key before it calls traverse_fn
Descend(queries, key, path, ctx, st) ==
    IF ~HasKey(queries, key) THEN Failed(queries, st, "KeyError")
    ELSE LET val == Get(queries, key)
         IN IF key \in {OR_KEY, AND_KEY}
            THEN LET r == TraverseChildren(val.v, 1, path, key, ctx, st)
                 IN [node |-> Put(queries, key, Nodes(r.nodes)), st |-> r.st]
            ELSE IF val.k = "map"
            THEN IF (VALUE_KEYS \cap KeySet(val.v)) # {}
                 THEN IF ~(KeySet(val.v) \subseteq VALUE_KEYS)
                      THEN Failed(queries, st, "BluepySnapError")
                      ELSE [node |-> queries, st |-> st]
                 ELSE LET r == Traverse(val.v, Append(path, <<key, 0>>), ctx, st)
                      IN [node |-> Put(queries, key, Map(r.node)), st |-> r.st]
            ELSE [node |-> queries, st |-> st]

\* the loop over queries[key] walking the children from the right
RECURSIVE TraverseChildrenReversed(_, _, _, _, _, _)
TraverseChildrenReversed(children, j, path, key, ctx, st) ==
    IF j > Len(children) \/ IsRaise(st.err) THEN [nodes |-> children, st |-> st]
    ELSE LET c == Len(children) - j + 1
             r == Traverse(children[c], Append(path, <<key, c>>), ctx, st)
         IN TraverseChildrenReversed([children EXCEPT ![c] = r.node], j + 1, path, key,
                                     ctx, r.st)

TraverseChildren(children, j, path, key, ctx, st) ==
    IF j > Len(children) \/ IsRaise(st.err) THEN [nodes |-> children, st |-> st]
    ELSE LET r == Traverse(children[j], Append(path, <<key, j>>), ctx, st)
         IN TraverseChildren([children EXCEPT ![j] = r.node], j + 1, path, key, ctx, r.st)

\* the loop over list(queries.keys()), from its i-th key on
TraverseKeys(queries, snapshot, i, path, ctx, st) ==
    IF i > Len(snapshot) \/ IsRaise(st.err) THEN [node |-> queries, st |-> st]
    ELSE LET down == Descend(queries, snapshot[i], path, ctx, st)
             after == IF IsRaise(down.st.err) THEN down
                      ELSE Visit(ctx, down.node, snapshot[i], path, down.st)
         IN TraverseKeys(after.node, snapshot, i + 1, path, ctx, after.st)

Traverse(queries, path, ctx, st) ==
    TraverseKeys(queries, Keys(queries), 1, path, ctx,
                 [st EXCEPT !.trace = Append(@, Enter(path, Keys(queries)))])

TraverseQueriesBottomUp(queries, ctx) == Traverse(queries, <<>>, ctx, St0)

-----------------------------------------------------------------------------
(* The public functions.  Each works on the tree object `ref` of the heap  *)
(* h and returns [heap, result, raw, trace, lookups].                      *)

\* no copy at all: the "copy" is the caller's own object
DeepcopyAlias(h, ref) == [heap |-> h, ref |-> ref]

\* copy.deepcopy(queries): a new object that shares nothing with the original
Deepcopy(h, ref) == [heap |-> [h EXCEPT !.copy = h[ref]], ref |-> "copy"]

GetProperties(h, ref) ==
    LET t == TraverseQueriesBottomUp(h[ref], [fn |-> "collect", data |-> <<>>, flag |-> FALSE])
    IN [heap |-> [h EXCEPT ![ref] = t.node],
        result |-> IF IsRaise(t.st.err) THEN t.st.err ELSE NameSet(t.st.props),
        raw |-> None, trace |-> t.st.trace, lookups |-> t.st.lookups]

ResolveNodesets(h, ref, raise_missing_prop) ==
    LET c == Deepcopy(h, ref)
        t == TraverseQueriesBottomUp(c.heap[c.ref],
                 [fn |-> "resolve", data |-> <<>>, flag |-> raise_missing_prop])
        h2 == [c.heap EXCEPT ![c.ref] = t.node]
    IN [heap |-> h2,
        result |-> IF IsRaise(t.st.err) THEN t.st.err ELSE Map(h2[c.ref]),
        raw |-> None, trace |-> t.st.trace, lookups |-> t.st.lookups]

\* the last line of resolve_ids without the broadcast
FinalMaskScalar(d, folded) == folded

\* np.full(len(data), fill_value=result) if isinstance(result, bool) else result
FinalMask(d, folded) == IF folded.k = "bool" THEN Vec(Full(Len(d), folded.v)) ELSE folded

ResolveIds(h, ref, d) ==
    LET c == Deepcopy(h, ref)
        t == TraverseQueriesBottomUp(c.heap[c.ref], [fn |-> "mask", data |-> d, flag |-> FALSE])
        h2 == [c.heap EXCEPT ![c.ref] = t.node]
        folded == MergeQueriesMasks(t.node)
    IN IF IsRaise(t.st.err)
       THEN [heap |-> h2, result |-> t.st.err, raw |-> None,
             trace |-> t.st.trace, lookups |-> t.st.lookups]
       ELSE [heap |-> h2, result |-> FinalMask(d, folded), raw |-> folded,
             trace |-> t.st.trace, lookups |-> t.st.lookups]

-----------------------------------------------------------------------------
(* Inputs *)

Row(i) == [id |-> 3 * i - 1,
           a |-> Int_(((i - 1) % 3) + 1),
           b |-> Int_(3 + (((i - 1) \div 2) % 2)),
           s |-> Str(<<"ab", "abc", "xab">>[((i - 1) % 3) + 1]),
           x |-> Int_(i)]

Tables == {[i \in 1..n |-> Row(i)] : n \in 0..MaxRows}

RECURSIVE SeqsUpTo(_, _)
SeqsUpTo(S, n) ==
    IF n = 0 THEN {<<>>}
    ELSE LET shorter == SeqsUpTo(S, n - 1)
         IN shorter \cup {Append(q, e) : q \in {t \in shorter : Len(t) = n - 1}, e \in S}

MaskValues(n) == {PyTrue, PyFalse} \cup {Vec(bs) : bs \in [1..n -> BOOLEAN]}

NoHeap == [caller |-> <<>>, copy |-> <<>>]

\* the dicts of at most n items of Pool, no key twice, in every key order
RECURSIVE FlatNodes(_, _)
FlatNodes(Pool, n) ==
    IF n = 0 THEN {<<>>}
    ELSE LET shorter == FlatNodes(Pool, n - 1)
         IN shorter \cup
            UNION {{Append(q, it) : it \in {p \in Pool : ~HasKey(q, p[1])}} :
                      q \in {t \in shorter : Len(t) = n - 1}}

Leaf(key, val) == <<<<key, val>>>>
Comb(key, children) == <<<<key, Nodes(children)>>>>

\* every $and / $or node over at most n children drawn from Pool
Combs(Pool, n) == {Comb(key, cs) : key \in {AND_KEY, OR_KEY}, cs \in SeqsUpTo(Pool, n)}

(* Family A: equality and membership leaves under nested combinators *)
A1 == <<"a", Int_(1)>>
A2 == <<"a", Int_(2)>>
B3 == <<"b", Int_(3)>>
EqItems == {A1, A2, B3, <<"a", List(<<Int_(1), Int_(3)>>)>>, <<"s", Str("ab")>>}
FlatA == FlatNodes(EqItems, MaxKeys)
Level1 == Combs({<<A1>>, <<A2>>, <<B3>>, <<>>}, MaxChildren)
Level1Core == {Comb(OR_KEY, <<<<A1>>, <<A2>>>>), Comb(AND_KEY, <<<<A1>>, <<B3>>>>),
               Comb(OR_KEY, <<>>), Comb(AND_KEY, <<>>)}
Level2 == Combs(Level1Core \cup {<<A1>>, <<B3>>, <<A2, B3>>}, MaxChildren)
Mixed == {<<it>> \o c : it \in {A1, B3}, c \in Level1}
         \cup {c \o <<it>> : it \in {A1, B3}, c \in Level1}
FamilyA == FlatA \cup Level1 \cup Level2 \cup Mixed

(* Family B: population, ID, unknown and malformed keys *)
MixedOperators == Map(<<<<REGEX_KEY, Str("ab")>>, <<"b", Int_(1)>>>>)
OddItems == {<<POPULATION_KEY, Str("Q")>>, <<POPULATION_KEY, Str("P")>>,
             <<POPULATION_KEY, List(<<Str("Q"), Str("P")>>)>>,
             <<"zzz", Int_(1)>>, <<"zzz", MixedOperators>>,
             <<"x", Int_(2)>>, <<"x", List(<<Int_(1), Int_(3)>>)>>,
             <<"a", Map(Leaf("$foo", Int_(1)))>>, A1,
             <<NODE_ID_KEY, List(<<Int_(2), Int_(2), Int_(5)>>)>>,
             <<NODE_ID_KEY, Int_(9)>>, <<EDGE_ID_KEY, List(<<Int_(5)>>)>>,
             <<"s", Map(Leaf(REGEX_KEY, Str("ab.*")))>>}
FlatB == FlatNodes(OddItems, MaxKeys)
OrB == {Comb(OR_KEY, <<<<it>>, <<A1>>>>) : it \in OddItems}
       \cup {Comb(OR_KEY, <<<<A1>>, <<it>>>>) : it \in OddItems}
FamilyB == FlatB \cup OrB

(* Family C: node-set references *)
NS1 == <<NODE_SET_KEY, Str("ns1")>>
NS2 == <<NODE_SET_KEY, Str("ns2")>>
FlatC == FlatNodes({NS1, NS2, A1}, MaxKeys)
NsItems == {NS1, NS2, A1, <<AND_KEY, Nodes(<<<<B3>>>>)>>,
            <<OR_KEY, Nodes(<<<<NS1>>, <<A2>>>>)>>, <<"a", Map(<<NS1>>)>>}
FamilyC == FlatNodes(NsItems, MaxKeys) \cup Combs(FlatC, MaxChildren)

Trees == FamilyA \cup FamilyB \cup FamilyC

-----------------------------------------------------------------------------
(* The public functions on the caller's tree. *)

Init ==
    /\ data \in Tables
    /\ heap \in {[caller |-> t, copy |-> <<>>] : t \in Trees}
    /\ arg = <<>> /\ op = "init" /\ result = None /\ raw = None
    /\ trace = <<>> /\ lookups = 0 /\ masks = <<>> /\ node = <<>> /\ ids = None
    /\ passed = FALSE

Returned(r, name) ==
    /\ op' = name
    /\ arg' = heap.caller
    /\ heap' = r.heap
    /\ result' = r.result
    /\ raw' = r.raw
    /\ trace' = r.trace
    /\ lookups' = r.lookups
    /\ UNCHANGED <<data, masks, node, ids, passed>>

CallResolveIds ==
    /\ op = "init"
    /\ Returned(ResolveIds(heap, "caller", data), "resolve_ids")

CallGetProperties ==
    /\ op = "init"
    /\ Returned(GetProperties(heap, "caller"), "get_properties")

CallResolveNodesets ==
    /\ op = "init"
    /\ \E raise_missing_prop \in BOOLEAN :
          Returned(ResolveNodesets(heap, "caller", raise_missing_prop), "resolve_nodesets")

\* the caller takes the tree resolve_nodesets returned as its query
PassResolved ==
    /\ op = "resolve_nodesets"
    /\ result.k = "map"
    /\ heap' = [caller |-> result.v, copy |-> <<>>]
    /\ passed' = TRUE
    /\ arg' = <<>> /\ op' = "init" /\ result' = None /\ raw' = None
    /\ trace' = <<>> /\ lookups' = 0
    /\ UNCHANGED <<data, masks, node, ids>>

Next == CallResolveIds \/ CallGetProperties \/ CallResolveNodesets \/ PassResolved

Spec == Init /\ [][Next]_vars

-----------------------------------------------------------------------------
(* The leaf-level functions on one predicate node. *)

IdPool == {Int_(2), Int_(5), Int_(9)}
IdLists == {List(q) : q \in SeqsUpTo(IdPool, MaxIds)}
IdArgs == {None} \cup IdPool \cup IdLists

LeafItems == {A1, <<"a", List(<<Int_(1), Int_(3)>>)>>,
              <<"a", Map(Leaf(REGEX_KEY, Str("ab")))>>,
              <<"s", Str("ab")>>, <<"s", List(<<Str("ab"), Str("xab")>>)>>,
              <<"s", Map(Leaf(REGEX_KEY, Str("ab.*")))>>,
              <<"s", Map(Leaf(REGEX_KEY, Str("ab")))>>,
              <<"x", Int_(2)>>, <<"x", List(<<Int_(1), Int_(3)>>)>>,
              <<"x", List(<<Int_(1), Int_(2), Int_(3)>>)>>,
              <<"x", Map(Leaf(REGEX_KEY, Str("ab")))>>,
              <<POPULATION_KEY, Str("P")>>, <<POPULATION_KEY, Str("Q")>>,
              <<"zzz", Int_(1)>>}
IdNodes == UNION {{Leaf(NODE_ID_KEY, i), Leaf(EDGE_ID_KEY, i),
                   <<<<POPULATION_KEY, Str("P")>>, <<NODE_ID_KEY, i>>>>,
                   <<<<POPULATION_KEY, Str("Q")>>, <<NODE_ID_KEY, i>>>>,
                   <<<<NODE_ID_KEY, i>>, A1>>} : i \in IdPool \cup IdLists}
LeafNodes == FlatNodes(LeafItems, MaxKeys) \cup IdNodes

InitLeaf ==
    /\ data \in Tables
    /\ node \in LeafNodes
    /\ heap = NoHeap /\ arg = <<>> /\ op = "init" /\ result = None /\ raw = None
    /\ trace = <<>> /\ lookups = 0 /\ masks = <<>> /\ ids = None /\ passed = FALSE

CallPositionalMask ==
    /\ op = "init"
    /\ node = <<>>
    /\ \E i \in IdArgs :
          /\ ids' = i
          /\ result' = PositionalMask(data, i)
    /\ op' = "_positional_mask"
    /\ UNCHANGED <<data, heap, arg, raw, trace, lookups, masks, node, passed>>

\* raw keeps the dict _circuit_mask hands back beside the mask
CallCircuitMask ==
    /\ op = "init"
    /\ LET cm == CircuitMask(data, PopulationName, node)
       IN result' = cm.mask /\ raw' = Map(cm.queries)
    /\ op' = "_circuit_mask"
    /\ UNCHANGED <<data, heap, arg, trace, lookups, masks, node, ids, passed>>

CallPropertiesMask ==
    /\ op = "init"
    /\ result' = PropertiesMask(data, PopulationName, node)
    /\ op' = "_properties_mask"
    /\ UNCHANGED <<data, heap, arg, raw, trace, lookups, masks, node, ids, passed>>

NextLeaf == CallPositionalMask \/ CallCircuitMask \/ CallPropertiesMask

SpecLeaf == InitLeaf /\ [][NextLeaf]_vars

-----------------------------------------------------------------------------
(* The mask algebra on its own: _logical_and and _logical_or of a list.    *)

InitMask ==
    /\ data \in Tables
    /\ masks \in SeqsUpTo(MaskValues(Len(data)), MaxMasks)
    /\ heap = NoHeap /\ arg = <<>> /\ op = "init" /\ result = None /\ raw = None
    /\ trace = <<>> /\ lookups = 0 /\ node = <<>> /\ ids = None /\ passed = FALSE

CallLogicalAnd ==
    /\ op = "init"
    /\ op' = "_logical_and"
    /\ result' = LogicalAnd(masks)
    /\ UNCHANGED <<data, heap, arg, raw, trace, lookups, masks, node, ids, passed>>

CallLogicalOr ==
    /\ op = "init"
    /\ op' = "_logical_or"
    /\ result' = LogicalOr(masks)
    /\ UNCHANGED <<data, heap, arg, raw, trace, lookups, masks, node, ids, passed>>

NextMask == CallLogicalAnd \/ CallLogicalOr

SpecMask == InitMask /\ [][NextMask]_vars

-----------------------------------------------------------------------------
(* Properties *)

Calls == {"resolve_ids", "resolve_nodesets", "get_properties"}
Returns == ~IsRaise(result)
AllFalse == Vec(Full(Len(data), FALSE))

\* the tree is built from equality / membership leaves on the int and string
\* columns and from $and / $or lists of such trees
RECURSIVE EqMemTree(_)
EqMemTree(q) ==
    \A i \in 1..Len(q) :
        IF q[i][1] \in {AND_KEY, OR_KEY}
        THEN q[i][2].k = "nodes" /\ \A j \in 1..Len(q[i][2].v) : EqMemTree(q[i][2].v[j])
        ELSE /\ q[i][1] \in Columns
             /\ DType(q[i][1]) # "float"
             /\ q[i][2].k \in {"int", "str", "list"}

\* the tree read as a boolean formula over row r of table d
RECURSIVE Holds(_, _, _)
Holds(q, d, r) ==
    \A i \in 1..Len(q) :
        LET key == q[i][1]
            val == q[i][2]
        IN CASE key = OR_KEY -> \E j \in 1..Len(val.v) : Holds(val.v[j], d, r)
             [] key = AND_KEY -> \A j \in 1..Len(val.v) : Holds(val.v[j], d, r)
             [] val.k = "list" -> \E j \in 1..Len(val.v) : d[r][key] = val.v[j]
             [] OTHER -> d[r][key] = val

ExampleTree == Comb(AND_KEY, <<Comb(OR_KEY, <<<<A1>>, <<A2>>>>), <<B3>>>>)

\* C1: resolve_ids selects row r exactly when the query tree, read as a boolean
\* formula ($or: some child holds, $and: every child holds, a node: all of its
\* keys hold), holds for r, for every tree of equality / membership leaves (a
\* scalar or a list on an int or string column; on a floating-point column the
\* matcher knows range leaves only, see C8) under nested $and / $or.
C1_SelectsFormula ==
    (op = "resolve_ids" /\ EqMemTree(arg))
        => result = Vec([r \in 1..Len(data) |-> Holds(arg, data, r)])

C1_Witness ==
    /\ op = "resolve_ids"
    /\ arg = ExampleTree
    /\ Len(data) = 3
    /\ result = Vec(<<TRUE, TRUE, FALSE>>)

\* C2: whenever resolve_ids returns, it returns a boolean vector with one entry
\* per row of the table, also for N = 0 and for the empty tree; a universal
\* scalar is broadcast first.
C2_VectorOfLengthN ==
    (op = "resolve_ids" /\ Returns)
        => /\ result.k = "vec"
           /\ Len(result.v) = Len(data)
           /\ \A r \in 1..Len(data) : result.v[r] \in BOOLEAN
           /\ raw.k = "bool" => result.v = Full(Len(data), raw.v)

C2_Witness ==
    /\ op = "resolve_ids"
    /\ arg = <<>>
    /\ raw = PyTrue
    /\ Len(data) = MaxRows
    /\ result = Vec(Full(MaxRows, TRUE))

PopulationMismatch(q) ==
    /\ HasKey(q, POPULATION_KEY)
    /\ LET requested == EnsureList(Get(q, POPULATION_KEY))
       IN \A i \in 1..Len(requested) : requested[i] # Str(PopulationName)

\* C3: a node whose population key does not name the table's population makes
\* resolve_ids yield all-false, whatever the other keys of the node hold, and
\* never an error.
C3_MismatchIsAllFalse ==
    (op = "resolve_ids" /\ PopulationMismatch(arg)) => result = AllFalse

\* C4: a node with a key that is neither a column nor a reserved key resolves
\* to all rows false and never raises, whatever the unknown key's value and
\* the node's other keys are.
C4_UnknownIsAllFalse ==
    (op = "resolve_ids" /\ UnknownProps(arg) # {}) => result = AllFalse

\* C5: resolve_ids, resolve_nodesets and get_properties leave the caller's tree
\* as it was when the call started, whether they return or raise.
C5_CallerTreeUnchanged ==
    op \in Calls => heap.caller = arg

C5_Witness ==
    /\ op = "resolve_nodesets"
    /\ Returns
    /\ lookups > 0
    /\ heap.copy # arg
    /\ heap.caller = arg

(* Reading the trace *)

IsVisit(i) == trace[i].e = "visit"
IsEnter(i) == trace[i].e = "enter"
\* path q lies strictly below path p
Below(q, p) == Len(q) > Len(p) /\ SubSeq(q, 1, Len(p)) = p
\* path q lies below the value of key `key` of the node at p
BelowKey(q, p, key) == Below(q, p) /\ q[Len(p) + 1][1] = key
\* the keys of the visit calls made on the node at p, in order
VisitedKeys(p) ==
    LET at == SelectSeq(trace, LAMBDA ev : ev.e = "visit" /\ ev.path = p)
    IN [i \in 1..Len(at) |-> at[i].key]
IsPrefixOf(s, u) == Len(s) <= Len(u) /\ SubSeq(u, 1, Len(s)) = s

\* the nodes the traversal has to enter: the root, the children of every
\* $and / $or list and every nested plain mapping
RECURSIVE NodeCount(_)
RECURSIVE ChildCount(_, _)
ChildCount(nodes, j) ==
    IF j > Len(nodes) THEN 0 ELSE NodeCount(nodes[j]) + ChildCount(nodes, j + 1)
RECURSIVE ItemCount(_, _)
ItemCount(q, i) ==
    IF i > Len(q) THEN 0
    ELSE ItemCount(q, i + 1)
         + (CASE q[i][1] \in {AND_KEY, OR_KEY} -> ChildCount(q[i][2].v, 1)
              [] q[i][2].k = "map" /\ (VALUE_KEYS \cap KeySet(q[i][2].v)) = {} ->
                     NodeCount(q[i][2].v)
              [] OTHER -> 0)
NodeCount(q) == 1 + ItemCount(q, 1)

\* C6 (as stated): every event below a node comes before the first visit call
\* made on the node itself.
C6_ChildrenBeforeAnyVisit ==
    op \in Calls =>
        \A i, j \in 1..Len(trace) :
            (IsVisit(i) /\ Below(trace[j].path, trace[i].path)) => j < i

\* C6 (amended): the sub-trees under a key are traversed, left to right, before
\* visit(node, key) is called for that key, and after the visit calls for the
\* node's earlier keys; visit is called once per key of the snapshot taken when
\* the node's traversal started, in that order, also when visit rewrites
\* node[key], adds a key or deletes the current key.
C6_ChildrenBeforeTheirKey ==
    op \in Calls =>
        /\ \A i, j \in 1..Len(trace) :
              (IsVisit(i) /\ BelowKey(trace[j].path, trace[i].path, trace[i].key)) => j < i
        /\ \A i, j \in 1..Len(trace) :
              (IsVisit(i) /\ BelowKey(trace[j].path, trace[i].path, trace[i].key))
                  => \A e \in 1..(i - 1) :
                        (IsVisit(e) /\ trace[e].path = trace[i].path) => e < j
        /\ \A i, j \in 1..Len(trace) :
              (\E n \in 1..Len(trace[i].path) :
                  /\ n <= Len(trace[j].path)
                  /\ SubSeq(trace[i].path, 1, n - 1) = SubSeq(trace[j].path, 1, n - 1)
                  /\ trace[i].path[n][1] = trace[j].path[n][1]
                  /\ trace[i].path[n][2] < trace[j].path[n][2]) => i < j
        /\ \A i \in 1..Len(trace) :
              IsEnter(i) =>
                  /\ \A j \in 1..Len(trace) : (IsEnter(j) /\ trace[j].path = trace[i].path) => j = i
                  /\ IsPrefixOf(VisitedKeys(trace[i].path), trace[i].keys)
                  /\ Returns => VisitedKeys(trace[i].path) = trace[i].keys
        /\ (op = "get_properties" /\ Returns)
              => Cardinality({i \in 1..Len(trace) : IsEnter(i)}) = NodeCount(arg)

C6_Witness ==
    /\ op = "resolve_nodesets"
    /\ arg = <<NS1, <<AND_KEY, Nodes(<<<<B3>>>>)>>>>
    /\ Returns
    /\ VisitedKeys(<<>>) = <<NODE_SET_KEY, AND_KEY>>
    /\ VisitedKeys(<<<<AND_KEY, 2>>>>) = <<NODE_ID_KEY>>

RECURSIVE NoNodeSet(_)
NoNodeSet(q) ==
    \A i \in 1..Len(q) :
        /\ q[i][1] # NODE_SET_KEY
        /\ q[i][2].k = "nodes" => \A j \in 1..Len(q[i][2].v) : NoNodeSet(q[i][2].v[j])
        /\ q[i][2].k = "map" => NoNodeSet(q[i][2].v)

\* C7: the tree resolve_nodesets returns holds no $node_set key at any depth;
\* a tree without $node_set keys, and so every tree resolve_nodesets returned,
\* is returned equal to itself and without consulting the registry.
C7_Idempotent ==
    op = "resolve_nodesets" =>
        /\ Returns => NoNodeSet(result.v)
        /\ (Returns /\ NoNodeSet(arg)) => (result = Map(arg) /\ lookups = 0)
        /\ passed => (result = Map(arg) /\ lookups = 0)

C7_Witness ==
    /\ op = "resolve_nodesets"
    /\ passed
    /\ arg = <<A1, <<AND_KEY, Nodes(<<Leaf(NODE_ID_KEY, List(<<Int_(2), Int_(5)>>))>>)>>>>
    /\ result = Map(arg)

(* One property predicate {col: V} *)

OneProperty == Len(node) = 1 /\ node[1][1] \in Columns
PCol == node[1][1]
PVal == node[1][2]
IsRegex(val) == val.k = "map" /\ Keys(val.v) = <<REGEX_KEY>>
Membership == Vec([r \in 1..Len(data) |-> \E j \in 1..Len(PVal.v) : data[r][PCol] = PVal.v[j]])
Equality == Vec([r \in 1..Len(data) |-> data[r][PCol] = PVal])
InRange == Vec([r \in 1..Len(data) |->
                   data[r][PCol].v >= PVal.v[1].v /\ data[r][PCol].v <= PVal.v[2].v])
\* the whole string is consumed by the pattern: "ab" is the string itself,
\* "ab.*" every string that starts with ab
FullMatch(cell, pattern) ==
    CASE pattern = "ab" -> Chars(cell.v) = <<"a", "b">>
      [] pattern = "ab.*" -> Len(Chars(cell.v)) >= 2 /\ SubSeq(Chars(cell.v), 1, 2) = <<"a", "b">>
RegexMatch == Vec([r \in 1..Len(data) |-> FullMatch(data[r][PCol], PVal.v[1][2].v)])

\* C8 (as stated): for every column type a list is set membership, a scalar
\* exact equality and a {$regex: ...} mapping the regex match.
C8_ShapeDecides ==
    (op = "_properties_mask" /\ OneProperty) =>
        /\ PVal.k = "list" => result = Membership
        /\ PVal.k \in {"int", "str"} => result = Equality
        /\ IsRegex(PVal) => result = RegexMatch

\* C8 (amended): on a column that is not floating-point a list is set
\* membership and a scalar exact equality; a {$regex: ...} mapping is the
\* full-string regex match on a string column and an error on a numeric one; on
\* a floating-point column the dtype is tested first and every value is
\* unpacked as the pair of an inclusive range, so a 2-element list is a range
\* and a scalar, a list of another length or a mapping raises.
C8_DtypeThenShape ==
    (op = "_properties_mask" /\ OneProperty) =>
        IF DType(PCol) = "float"
        THEN IF PVal.k = "list" /\ Len(PVal.v) = 2 THEN result = InRange ELSE IsRaise(result)
        ELSE /\ PVal.k = "list" => result = Membership
             /\ PVal.k \in {"int", "str"} => result = Equality
             /\ IsRegex(PVal) => IF DType(PCol) = "object" THEN result = RegexMatch
                                 ELSE IsRaise(result)

C8_Witness ==
    /\ op = "_properties_mask"
    /\ node = Leaf("x", List(<<Int_(1), Int_(3)>>))
    /\ Len(data) = 3
    /\ result = Vec(<<TRUE, TRUE, TRUE>>)

AndOfAll == [r \in 1..Len(data) |->
                \A i \in 1..Len(masks) : Broadcast(Len(data), masks[i])[r]]
OrOfAll == [r \in 1..Len(data) |->
               \E i \in 1..Len(masks) : Broadcast(Len(data), masks[i])[r]]

\* C9: _logical_and is True for the empty list, False as soon as one element
\* is the scalar False, and otherwise stands for the elementwise AND of its
\* inputs; _logical_or is the dual.
C9_MaskAlgebra ==
    /\ op = "_logical_and" =>
          /\ masks = <<>> => result = PyTrue
          /\ (\E i \in 1..Len(masks) : masks[i] = PyFalse) => result = PyFalse
          /\ result.k \in {"bool", "vec"}
          /\ Broadcast(Len(data), result) = AndOfAll
    /\ op = "_logical_or" =>
          /\ masks = <<>> => result = PyFalse
          /\ (\E i \in 1..Len(masks) : masks[i] = PyTrue) => result = PyTrue
          /\ result.k \in {"bool", "vec"}
          /\ Broadcast(Len(data), result) = OrOfAll

C9_Witness ==
    /\ op = "_logical_and"
    /\ Len(masks) = 2
    /\ masks[1] = Vec(Full(Len(data), TRUE))
    /\ masks[2] = PyFalse
    /\ Len(data) = MaxRows
    /\ result = PyFalse

IdList(i) == IF i.k = "int" THEN <<i>> ELSE i.v
RowsWithId(L) == [r \in 1..Len(data) |-> \E j \in 1..Len(L) : L[j] = Int_(data[r].id)]
IdPredicate == Len(node) = 1 /\ node[1][1] \in {NODE_ID_KEY, EDGE_ID_KEY}

\* C10: an ID predicate with requested IDs L (a scalar is the one-element
\* list) selects exactly the rows whose ID occurs in L, whatever the order and
\* the duplicates of L; an ID absent from the table selects nothing and raises
\* nothing, also when all of L is absent.
C10_RowsWithRequestedId ==
    /\ (op = "_positional_mask" /\ ids.k # "none")
          => result = Vec(RowsWithId(IdList(ids)))
    /\ (op = "_circuit_mask" /\ IdPredicate)
          => result = Vec(RowsWithId(IdList(node[1][2]))) /\ raw = Map(<<>>)
    /\ (op = "_properties_mask" /\ IdPredicate)
          => /\ result.k \in {"bool", "vec"}
             /\ Broadcast(Len(data), result) = RowsWithId(IdList(node[1][2]))

C10_Witness ==
    /\ op = "_positional_mask"
    /\ ids = List(<<Int_(2), Int_(2), Int_(5)>>)
    /\ Len(data) = 3
    /\ result = Vec(<<TRUE, TRUE, FALSE>>)

====
